---- MODULE Spec2Model ----
(***************************************************************************)
(* The resumable flash-card study session of game-random                   *)
(* (src/unnamed/part_000): the in-memory `state` object, the per-book      *)
(* progress records kept in localStorage, the swipe gesture closure and    *)
(* the deferred navigation callbacks it schedules.                         *)
(*                                                                         *)
(* Every action is one run-to-completion step of the single-threaded       *)
(* event loop: one call of a handler, or the completion of one openBook.   *)
(* Indices are 0-based as in the source; TLA+ sequences are 1-based, so    *)
(* array[i] of the source is written array[i + 1].                         *)
(***************************************************************************)
EXTENDS Integers, Sequences, FiniteSets, TLC

(***************************************************************************)
(* Bounds of the model.                                                    *)
(***************************************************************************)
\* the longest word list a fetch of a book returns
MaxWords == 2
\* the shortest word list a fetch of a book returns (a sheet that shrank)
MinWords == 1
\* the largest value Date.now() returns
MaxTime == 1
\* the most setTimeout callbacks of animateSwipeAndAction waiting at once
MaxPending == 2
\* the most lines of a CSV text
MaxRows == 3
\* the longest array handed to shuffle on its own
MaxShuffle == 4
\* the longest word list of the book of the non-resumable variant
MaxAppWords == 2
\* the most words a game of the non-resumable variant draws
MaxHistory == 3
\* the callbacks that may wait when a drag of Spec is released
SessionPending == 1

\* the calls of openBook that may wait for their fetch at once
MaxLoading == 2


(***************************************************************************)
(* JavaScript values.  A value that the code inspects with typeof,         *)
(* Array.isArray or truthiness carries its type; a Word is the record      *)
(* {term, zhuyin}.                                                         *)
(***************************************************************************)
Undefined == [type |-> "undefined"]
Null == [type |-> "null"]
JNum(n) == [type |-> "number", value |-> n]
JStr(s) == [type |-> "string", value |-> s]
JArr(items) == [type |-> "array", items |-> items]

\* JavaScript truthiness of a tagged value
Truthy(v) ==
    CASE v.type = "undefined" -> FALSE
      [] v.type = "null" -> FALSE
      [] v.type = "number" -> v.value # 0
      [] v.type = "string" -> v.value # ""
      [] OTHER -> TRUE

Range(s) == {s[i] : i \in DOMAIN s}

\* the ids of defaultLibrary
Books == {"default-sheet-1", "default-sheet-2"}

\* the rows of the published sheet of a book, as CSVFetcher.parse yields them
SheetWord(bookId, i) ==
    [term |-> <<bookId, i>>, zhuyin |-> IF i = 0 THEN "" ELSE "zhuyin"]

\* the word lists a fetch of the book can return: the sheet's first n rows
FetchedWords(bookId) ==
    {[i \in 1..n |-> SheetWord(bookId, i - 1)] : n \in MinWords..MaxWords}

(***************************************************************************)
(* CSVFetcher.parse.  A string is the sequence of its characters; a        *)
(* character outside ASCII is written as its code point, "U+984C".         *)
(***************************************************************************)
\* the characters String.prototype.trim removes: the white space and the
\* line terminators of ECMAScript (the form feed is written "\f" or "U+000C")
WhiteSpace ==
    {" ", "\t", "\n", "U+000B", "\f", "U+000C", "\r", "U+00A0", "U+1680",
     "U+2000", "U+2001", "U+2002", "U+2003", "U+2004", "U+2005", "U+2006",
     "U+2007", "U+2008", "U+2009", "U+200A", "U+2028", "U+2029", "U+202F",
     "U+205F", "U+3000", "U+FEFF"}

RECURSIVE TrimStart(_)
TrimStart(str) ==
    IF str # <<>> /\ Head(str) \in WhiteSpace THEN TrimStart(Tail(str))
    ELSE str

RECURSIVE TrimEnd(_)
TrimEnd(str) ==
    IF str # <<>> /\ str[Len(str)] \in WhiteSpace
    THEN TrimEnd(SubSeq(str, 1, Len(str) - 1))
    ELSE str

\* a trim that removes the white space at the end only
TrimEndOnly(str) == TrimEnd(str)

Trim(str) == TrimEnd(TrimStart(str))

\* the characters of a sheet: the white space, the printable characters
\* of ASCII (the quotation mark is written "U+0022", the backslash
\* "U+005C", the grave accent "U+0060"), the characters U+00A1 to U+00FF of
\* Latin-1 and the two characters of the header word
Alphabet ==
    WhiteSpace \cup {"U+984C", "U+76EE"}
        \cup
        {"!", "U+0022", "#", "$", "%", "&", "'", "(", ")", "*", "+", ",", "-",
         ".", "/", "0", "1", "2", "3", "4", "5", "6", "7", "8", "9", ":", ";",
         "<", "=", ">", "?", "@", "A", "B", "C", "D", "E", "F", "G", "H", "I",
         "J", "K", "L", "M", "N", "O", "P", "Q", "R", "S", "T", "U", "V", "W",
         "X", "Y", "Z", "[", "U+005C", "]", "^", "_", "U+0060", "a", "b", "c", "d",
         "e", "f", "g", "h", "i", "j", "k", "l", "m", "n", "o", "p", "q", "r",
         "s", "t", "u", "v", "w", "x", "y", "z", "{", "|", "}", "~"}
        \cup
        {"U+00A1", "U+00A2", "U+00A3", "U+00A4", "U+00A5", "U+00A6", "U+00A7",
         "U+00A8", "U+00A9", "U+00AA", "U+00AB", "U+00AC", "U+00AD", "U+00AE",
         "U+00AF", "U+00B0", "U+00B1", "U+00B2", "U+00B3", "U+00B4", "U+00B5",
         "U+00B6", "U+00B7", "U+00B8", "U+00B9", "U+00BA", "U+00BB", "U+00BC",
         "U+00BD", "U+00BE", "U+00BF", "U+00C0", "U+00C1", "U+00C2", "U+00C3",
         "U+00C4", "U+00C5", "U+00C6", "U+00C7", "U+00C8", "U+00C9", "U+00CA",
         "U+00CB", "U+00CC", "U+00CD", "U+00CE", "U+00CF", "U+00D0", "U+00D1",
         "U+00D2", "U+00D3", "U+00D4", "U+00D5", "U+00D6", "U+00D7", "U+00D8",
         "U+00D9", "U+00DA", "U+00DB", "U+00DC", "U+00DD", "U+00DE", "U+00DF",
         "U+00E0", "U+00E1", "U+00E2", "U+00E3", "U+00E4", "U+00E5", "U+00E6",
         "U+00E7", "U+00E8", "U+00E9", "U+00EA", "U+00EB", "U+00EC", "U+00ED",
         "U+00EE", "U+00EF", "U+00F0", "U+00F1", "U+00F2", "U+00F3", "U+00F4",
         "U+00F5", "U+00F6", "U+00F7", "U+00F8", "U+00F9", "U+00FA", "U+00FB",
         "U+00FC", "U+00FD", "U+00FE", "U+00FF"}

\* the characters of Alphabet that toLowerCase changes, each with its lower
\* case
LowerCasePairs ==
    {<<"A", "a">>, <<"B", "b">>, <<"C", "c">>, <<"D", "d">>, <<"E", "e">>,
     <<"F", "f">>, <<"G", "g">>, <<"H", "h">>, <<"I", "i">>, <<"J", "j">>,
     <<"K", "k">>, <<"L", "l">>, <<"M", "m">>, <<"N", "n">>, <<"O", "o">>,
     <<"P", "p">>, <<"Q", "q">>, <<"R", "r">>, <<"S", "s">>, <<"T", "t">>,
     <<"U", "u">>, <<"V", "v">>, <<"W", "w">>, <<"X", "x">>, <<"Y", "y">>,
     <<"Z", "z">>, <<"U+00C0", "U+00E0">>, <<"U+00C1", "U+00E1">>,
     <<"U+00C2", "U+00E2">>, <<"U+00C3", "U+00E3">>, <<"U+00C4", "U+00E4">>,
     <<"U+00C5", "U+00E5">>, <<"U+00C6", "U+00E6">>, <<"U+00C7", "U+00E7">>,
     <<"U+00C8", "U+00E8">>, <<"U+00C9", "U+00E9">>, <<"U+00CA", "U+00EA">>,
     <<"U+00CB", "U+00EB">>, <<"U+00CC", "U+00EC">>, <<"U+00CD", "U+00ED">>,
     <<"U+00CE", "U+00EE">>, <<"U+00CF", "U+00EF">>, <<"U+00D0", "U+00F0">>,
     <<"U+00D1", "U+00F1">>, <<"U+00D2", "U+00F2">>, <<"U+00D3", "U+00F3">>,
     <<"U+00D4", "U+00F4">>, <<"U+00D5", "U+00F5">>, <<"U+00D6", "U+00F6">>,
     <<"U+00D8", "U+00F8">>, <<"U+00D9", "U+00F9">>, <<"U+00DA", "U+00FA">>,
     <<"U+00DB", "U+00FB">>, <<"U+00DC", "U+00FC">>, <<"U+00DD", "U+00FD">>,
     <<"U+00DE", "U+00FE">>}

\* toLowerCase on Alphabet, character by character
LowerCase ==
    [c \in Alphabet |->
        IF \E p \in LowerCasePairs : p[1] = c
        THEN (CHOOSE p \in LowerCasePairs : p[1] = c)[2]
        ELSE c]

RECURSIVE ToLowerCase(_)
\* str.toLowerCase() for a string of characters of Alphabet: none of them
\* lowers to more than one character or by a rule that looks at its
\* neighbours
ToLowerCase(str) ==
    IF str = <<>> THEN <<>>
    ELSE <<LowerCase[Head(str)]>> \o ToLowerCase(Tail(str))

\* str.includes(sub)
Includes(str, sub) ==
    \E i \in 0..(Len(str) - Len(sub)) : SubSeq(str, i + 1, i + Len(sub)) = sub

RECURSIVE SplitFrom(_, _, _, _)
\* str.split(sep) for a one-character sep, continued: `done` holds the
\* pieces that are complete and `piece` the one being read
SplitFrom(str, sep, done, piece) ==
    IF str = <<>> THEN Append(done, piece)
    ELSE IF Head(str) = sep
         THEN SplitFrom(Tail(str), sep, Append(done, piece), <<>>)
         ELSE SplitFrom(Tail(str), sep, done, Append(piece, Head(str)))

Split(str, sep) == SplitFrom(str, sep, <<>>, <<>>)

\* a piece that "\n" ended, without the "\r" the separator took with it
WithoutCR(piece) ==
    IF piece # <<>> /\ piece[Len(piece)] = "\r"
    THEN SubSeq(piece, 1, Len(piece) - 1)
    ELSE piece

\* csvText.split(/\r?\n/)
SplitLines(csvText) ==
    LET pieces == Split(csvText, "\n") IN
    [i \in DOMAIN pieces |->
        IF i < Len(pieces) THEN WithoutCR(pieces[i]) ELSE pieces[i]]

\* the first row is no title when it looks like a header
IsHeader(term) ==
    LET lower == ToLowerCase(term) IN
    \/ lower = <<"t", "e", "r", "m">>
    \/ lower = <<"w", "o", "r", "d">>
    \/ Includes(lower, <<"U+984C", "U+76EE">>)
    \/ Includes(lower, <<"c", "o", "n", "t", "e", "n", "t">>)

\* CSVFetcher.parse: {words, metadata}; metadata.title is Undefined when
\* the callback never sets it
Parse(csvText) ==
    LET lines == SelectSeq(SplitLines(csvText),
                           LAMBDA line : Trim(line) # <<>>)
        Term(line) == Trim(Split(line, ",")[1])
        Zhuyin(line) ==
            LET parts == Split(line, ",") IN
            IF Len(parts) >= 2 THEN Trim(parts[2]) ELSE <<>>
        rows == [i \in DOMAIN lines |->
                    [index |-> i - 1, term |-> Term(lines[i]),
                     zhuyin |-> Zhuyin(lines[i])]]
        pushed == SelectSeq(rows, LAMBDA r : r.term # <<>> /\ r.index # 0)
    IN  [words |-> [i \in DOMAIN pushed |->
                       [term |-> pushed[i].term, zhuyin |-> pushed[i].zhuyin]],
         title |-> IF /\ lines # <<>>
                      /\ Term(lines[1]) # <<>>
                      /\ ~IsHeader(Term(lines[1]))
                   THEN JStr(Term(lines[1]))
                   ELSE Undefined]

(***************************************************************************)
(* The state.                                                              *)
(***************************************************************************)
VARIABLES
    library,          \* state.library: the metadata of each book (its count)
    activeBook,       \* state.activeBook: Null or {id, words}
    selectedIndices,  \* state.selectedIndices: a Set, kept in insertion order
    game,             \* state.game: {active, playlist, currentIndex}
    localStorage,     \* the progress entries of localStorage, by storage key
    screen,           \* the screen navigateTo made active
    resumeBtn,        \* dom.resumeBtn.style.display
    startX,           \* initSwipeAttributes: startX
    currentX,         \* initSwipeAttributes: currentX
    isDragging,       \* initSwipeAttributes: isDragging
    timers,           \* the callbacks setTimeout holds, oldest first
    syncing,          \* the books whose fetch by syncAll has not returned
    last,             \* the handler that ran last and what it reported
    trip              \* the scenario under way (SpecResume, SpecSwipe, ...)

vars == <<library, activeBook, selectedIndices, game, localStorage, screen,
          resumeBtn, startX, currentX, isDragging, timers, syncing, last,
          trip>>

swipeVars == <<startX, currentX, isDragging>>

(***************************************************************************)
(* Set, as JavaScript keeps it: distinct members in insertion order.       *)
(***************************************************************************)
SetHas(set, x) == x \in Range(set)
SetAdd(set, x) == IF SetHas(set, x) THEN set ELSE Append(set, x)
SetDelete(set, x) == SelectSeq(set, LAMBDA y : y # x)

RECURSIVE SetFrom(_, _)
\* new Set(array), continued from the members already added
SetFrom(set, array) ==
    IF array = <<>> THEN set
    ELSE SetFrom(SetAdd(set, Head(array)), Tail(array))

\* new Set(iterable) of an array, or of undefined/null (the empty Set)
NewSet(v) == IF v.type = "array" THEN SetFrom(<<>>, v.items) ELSE <<>>

(***************************************************************************)
(* JSON.stringify / JSON.parse and localStorage.                           *)
(***************************************************************************)
\* JSON.stringify writes an undefined array element as null
StringifyItems(array) ==
    [i \in DOMAIN array |-> IF array[i] = Undefined THEN Null ELSE array[i]]

\* the text JSON.stringify gives for the data object of saveProgress
JSONStringify(data) ==
    [type |-> "string", value |-> "json",
     json |-> [data EXCEPT !.playlist = JArr(StringifyItems(data.playlist.items))]]

\* JSON.parse throws a SyntaxError on a text that is not JSON
ParseThrows(text) == "json" \notin DOMAIN text
JSONParse(text) == text.json

\* reading a property of null or undefined throws a TypeError
PropertyThrows(data) == data.type \in {"null", "undefined"}
\* data.name: undefined when data is not an object holding it
Property(data, name) ==
    IF data.type = "object" /\ name \in DOMAIN data THEN data[name] ELSE Undefined

GetStorageKey(bookId) == <<"guess_game_progress_", bookId>>

StorageKeys == {GetStorageKey(b) : b \in Books}

\* localStorage.getItem: null when the key holds nothing
GetItem(ls, key) == ls[key]
SetItem(ls, key, text) == [ls EXCEPT ![key] = text]
RemoveItem(ls, key) == [ls EXCEPT ![key] = Null]

\* a saveProgress that always stores the initial cursor
SaveProgressInitialIndex(ls, bookId, playlist, currentIndex, originalIndices, now) ==
    LET data == [type |-> "object",
                 playlist |-> JArr(playlist),
                 currentIndex |-> JNum(0),
                 originalIndices |-> JArr(originalIndices),
                 timestamp |-> JNum(now)]
    IN  SetItem(ls, GetStorageKey(bookId), JSONStringify(data))

\* StorageManager.saveProgress at time `now`, as the new localStorage
SaveProgress(ls, bookId, playlist, currentIndex, originalIndices, now) ==
    LET data == [type |-> "object",
                 playlist |-> JArr(playlist),
                 currentIndex |-> JNum(currentIndex),
                 originalIndices |-> JArr(originalIndices),
                 timestamp |-> JNum(now)]
    IN  SetItem(ls, GetStorageKey(bookId), JSONStringify(data))

\* an exception on its way up the stack
Thrown == [type |-> "Error"]

\* the try block of loadProgress: the value it returns, or Thrown
LoadProgressTry(json) ==
    IF ParseThrows(json) THEN Thrown
    ELSE LET data == JSONParse(json) IN
         IF PropertyThrows(data) THEN Thrown
         ELSE IF \/ ~Truthy(Property(data, "playlist"))
                 \/ Property(data, "playlist").type # "array"
                 \/ Property(data, "currentIndex").type # "number"
              THEN Null
              ELSE data

\* a loadProgress whose try block has no catch
LoadProgressFromNoCatch(ls, bookId) ==
    LET json == GetItem(ls, GetStorageKey(bookId)) IN
    IF ~Truthy(json) THEN Null ELSE LoadProgressTry(json)

\* StorageManager.loadProgress against a given localStorage
LoadProgressFrom(ls, bookId) ==
    LET json == GetItem(ls, GetStorageKey(bookId)) IN
    IF ~Truthy(json) THEN Null
    ELSE LET result == LoadProgressTry(json) IN
         IF result = Thrown THEN Null ELSE result

LoadProgress(bookId) == LoadProgressFrom(localStorage, bookId)

\* a clearProgress that removes a key nothing is stored under
ClearProgressWrongKey(ls, bookId) == ls

\* StorageManager.clearProgress, as the new localStorage
ClearProgress(ls, bookId) == RemoveItem(ls, GetStorageKey(bookId))

\* the values Date.now() can return
Times == 0..MaxTime

(***************************************************************************)
(* shuffle: Fisher-Yates.  random[c] is Math.floor(Math.random() * c), the *)
(* pick drawn while currentIndex is c.                                     *)
(***************************************************************************)
\* picks drawn as Math.floor(Math.random() * array.length) at every step
RandomPicksWholeArray(n) == [1..n -> 0..(n - 1)]

RandomPicks(n) == {r \in [1..n -> 0..(n - 1)] : \A c \in 1..n : r[c] < c}

\* a swap that forgets to write the second element back
SwapLosing(array, i, j) == [array EXCEPT ![i + 1] = array[j + 1]]

Swap(array, i, j) ==
    [array EXCEPT ![i + 1] = array[j + 1], ![j + 1] = array[i + 1]]

RECURSIVE ShuffleFrom(_, _, _)
ShuffleFrom(array, currentIndex, random) ==
    IF currentIndex = 0 THEN array
    ELSE LET randomIndex == random[currentIndex] IN
         ShuffleFrom(Swap(array, currentIndex - 1, randomIndex),
                     currentIndex - 1, random)

Shuffle(array, random) == ShuffleFrom(array, Len(array), random)

\* array[idx]: undefined past the end
At(array, idx) ==
    IF idx + 1 \in DOMAIN array THEN array[idx + 1] ELSE Undefined

\* Array.from(state.selectedIndices).map((idx) => state.activeBook.words[idx])
Pool(indices, words) == [i \in DOMAIN indices |-> At(words, indices[i])]

(***************************************************************************)
(* The initial state, as init() leaves it on a first load: the module's    *)
(* `state` literal, the library of the defaults (which save() also writes  *)
(* under the key 'library': that entry always equals state.library), an    *)
(* empty progress store, the home screen, the closure variables of         *)
(* initSwipeAttributes, and the fetches of syncAll under way.              *)
(***************************************************************************)
\* the handler `name`, the alert it raised, and the progress record that
\* loadProgress would have returned for the active book as it began
Op(name, alert, old) == [op |-> name, alert |-> alert, old |-> old]

NoTrip == [phase |-> "none"]

Init ==
    /\ library = [b \in Books |-> [count |-> 0]]
    /\ activeBook = Null
    /\ selectedIndices = <<>>
    /\ game = [active |-> FALSE, playlist |-> <<>>, currentIndex |-> -1]
    /\ localStorage = [k \in StorageKeys |-> Null]
    /\ screen = "home"
    /\ resumeBtn = "none"
    /\ startX = 0
    /\ currentX = 0
    /\ isDragging = FALSE
    /\ timers = <<>>
    /\ syncing = Books
    /\ last = Op("init", "none", Null)
    /\ trip = NoTrip

(***************************************************************************)
(* updateWelcomeUI(bookId) against a given localStorage: the selection it  *)
(* leaves and the display of the resume button.                            *)
(***************************************************************************)
WelcomeSelection(ls, bookId) ==
    LET progress == LoadProgressFrom(ls, bookId) IN
    IF Truthy(progress) /\ Truthy(Property(progress, "originalIndices"))
    THEN NewSet(progress.originalIndices)
    ELSE <<>>

WelcomeResumeBtn(ls, bookId) ==
    IF Truthy(LoadProgressFrom(ls, bookId)) THEN "flex" ELSE "none"

(***************************************************************************)
(* openBook(bookId), from its call to the end of the handler, with the     *)
(* outcome of the fetch LibraryManager.loadBook makes.                     *)
(***************************************************************************)
FetchResults(bookId) ==
    {[ok |-> TRUE, words |-> w] : w \in FetchedWords(bookId)}
        \cup {[ok |-> FALSE, words |-> <<>>]}

\* LibraryManager.loadBook: the library it leaves when the fetch succeeds
LoadBookLibrary(bookId, words) ==
    IF library[bookId].count # Len(words)
    THEN [library EXCEPT ![bookId].count = Len(words)]
    ELSE library

\* an openBook that stores what loadBook returned before testing it
OpenBookStoringNull(bookId, result) ==
    IF ~result.ok
    THEN /\ activeBook' = Null
         /\ last' = Op("openBook", "csv", Null)
         /\ UNCHANGED <<library, selectedIndices, game, localStorage, screen,
                        resumeBtn, swipeVars, timers>>
    ELSE /\ library' = LoadBookLibrary(bookId, result.words)
         /\ activeBook' = [id |-> bookId, words |-> result.words]
         /\ selectedIndices' = WelcomeSelection(localStorage, bookId)
         /\ resumeBtn' = WelcomeResumeBtn(localStorage, bookId)
         /\ screen' = "welcome"
         /\ last' = Op("openBook", "none", Null)
         /\ UNCHANGED <<game, localStorage, swipeVars, timers>>

OpenBook(bookId, result) ==
    IF ~result.ok
    THEN /\ last' = Op("openBook", "csv", Null)
         /\ UNCHANGED <<library, activeBook, selectedIndices, game,
                        localStorage, screen, resumeBtn, swipeVars, timers>>
    ELSE /\ library' = LoadBookLibrary(bookId, result.words)
         /\ activeBook' = [id |-> bookId, words |-> result.words]
         /\ selectedIndices' = WelcomeSelection(localStorage, bookId)
         /\ resumeBtn' = WelcomeResumeBtn(localStorage, bookId)
         /\ screen' = "welcome"
         /\ last' = Op("openBook", "none", Null)
         /\ UNCHANGED <<game, localStorage, swipeVars, timers>>

\* a fetch syncAll began at page load returns: loadBook(bookId) updates the
\* book's count, or alerts when the fetch failed, and nothing is opened
SyncAll(bookId, result) ==
    /\ bookId \in syncing
    /\ syncing' = syncing \ {bookId}
    /\ IF result.ok
       THEN /\ library' = LoadBookLibrary(bookId, result.words)
            /\ last' = Op("syncAll", "none", Null)
       ELSE /\ UNCHANGED library
            /\ last' = Op("syncAll", "csv", Null)
    /\ UNCHANGED <<activeBook, selectedIndices, game, localStorage, screen,
                   resumeBtn, swipeVars, timers>>

\* the click handler of dom.backHomeBtn
BackHome ==
    /\ screen' = "home"
    /\ last' = Op("backHome", "none", Null)
    /\ UNCHANGED <<library, activeBook, selectedIndices, game, localStorage,
                   resumeBtn, swipeVars, timers>>

(***************************************************************************)
(* The selection handlers of the detail screen.                            *)
(***************************************************************************)
ToggleSelection(index) ==
    /\ activeBook # Null
    /\ index \in 0..(Len(activeBook.words) - 1)
    /\ selectedIndices' = IF SetHas(selectedIndices, index)
                          THEN SetDelete(selectedIndices, index)
                          ELSE SetAdd(selectedIndices, index)
    /\ last' = Op("select", "none", Null)
    /\ UNCHANGED <<library, activeBook, game, localStorage, screen,
                   resumeBtn, swipeVars, timers>>

\* the click handler of dom.selectAllBtn
\* (state.activeBook.words throws a TypeError while no book is open)
SelectAll ==
    /\ IF activeBook = Null
       THEN /\ UNCHANGED selectedIndices
            /\ last' = Op("select", "TypeError", Null)
       ELSE /\ LET total == Len(activeBook.words) IN
               selectedIndices' =
                   IF Len(selectedIndices) = total THEN <<>>
                   ELSE SetFrom(selectedIndices, [i \in 1..total |-> i - 1])
            /\ last' = Op("select", "none", Null)
    /\ UNCHANGED <<library, activeBook, game, localStorage, screen,
                   resumeBtn, swipeVars, timers>>

(***************************************************************************)
(* Game logic.                                                             *)
(***************************************************************************)
\* updateCardUI reads w.term of playlist[currentIndex]: a TypeError when the
\* entry is undefined or null
CardThrows(playlist, currentIndex) ==
    At(playlist, currentIndex) \in {Undefined, Null}

\* a new game that builds the playlist but leaves the stored record alone
StartNewGameNotSaving(now) ==
    IF Len(selectedIndices) = 0
    THEN /\ game' = [game EXCEPT !.active = TRUE]
         /\ UNCHANGED <<selectedIndices, localStorage, screen>>
    ELSE \E random \in RandomPicks(Len(selectedIndices)) :
         /\ game' = [active |-> TRUE,
                     playlist |-> Shuffle(Pool(selectedIndices,
                                               activeBook.words), random),
                     currentIndex |-> 0]
         /\ screen' = "game"
         /\ UNCHANGED <<selectedIndices, localStorage>>

\* startGame(false) after state.game.active = true; Date.now() returns `now`
StartNewGame(now) ==
    IF Len(selectedIndices) = 0
    THEN /\ game' = [game EXCEPT !.active = TRUE]
         /\ UNCHANGED <<selectedIndices, localStorage, screen>>
    ELSE \E random \in RandomPicks(Len(selectedIndices)) :
         LET pool == Pool(selectedIndices, activeBook.words)
             playlist == Shuffle(pool, random)
         IN  /\ game' = [active |-> TRUE, playlist |-> playlist,
                         currentIndex |-> 0]
             /\ localStorage' =
                    SaveProgress(ClearProgress(localStorage, activeBook.id),
                                 activeBook.id, playlist, 0, selectedIndices,
                                 now)
             /\ screen' = "game"
             /\ UNCHANGED selectedIndices

\* what startGame reports: the alert of the fallback, the TypeError it
\* throws, or both
StartReport(alerted, thrown) ==
    CASE alerted /\ thrown -> "resume, TypeError"
      [] alerted /\ ~thrown -> "resume"
      [] ~alerted /\ thrown -> "TypeError"
      [] OTHER -> "none"

\* the report holds the alert of the fallback
Alerted(report) == report \in {"resume", "resume, TypeError"}

\* startGame(isResume).  With no book open it sets state.game.active and
\* then throws at state.activeBook.id (resume) or state.activeBook.words (a
\* new game with a selection), or returns (a new game with none).  With a
\* book open it ends in updateCardUI, which throws on a card that is
\* undefined or null, after everything else is done.
StartGame(isResume, now) ==
    /\ IF activeBook = Null
       THEN /\ game' = [game EXCEPT !.active = TRUE]
            /\ last' = Op(IF isResume THEN "startGame(true)"
                          ELSE "startGame(false)",
                          StartReport(FALSE,
                                      isResume \/ selectedIndices # <<>>),
                          Null)
            /\ UNCHANGED <<selectedIndices, localStorage, screen>>
       ELSE IF isResume
            THEN LET progress == LoadProgress(activeBook.id) IN
                 IF Truthy(progress)
                 THEN /\ game' = [active |-> TRUE,
                                  playlist |-> progress.playlist.items,
                                  currentIndex |->
                                      progress.currentIndex.value]
                      /\ selectedIndices' = NewSet(progress.originalIndices)
                      /\ screen' = "game"
                      /\ last' =
                             Op("startGame(true)",
                                StartReport(FALSE,
                                    CardThrows(progress.playlist.items,
                                               progress.currentIndex.value)),
                                progress)
                      /\ UNCHANGED localStorage
                 ELSE /\ StartNewGame(now)
                      /\ last' =
                             Op("startGame(true)",
                                StartReport(TRUE,
                                    /\ selectedIndices # <<>>
                                    /\ CardThrows(game'.playlist, 0)),
                                progress)
            ELSE /\ StartNewGame(now)
                 /\ last' =
                        Op("startGame(false)",
                           StartReport(FALSE,
                               /\ selectedIndices # <<>>
                               /\ CardThrows(game'.playlist, 0)),
                           LoadProgress(activeBook.id))
    /\ UNCHANGED <<library, activeBook, resumeBtn, swipeVars, timers>>

\* an exit that discards the stored record instead of saving it
ExitGameClearing(now) ==
    /\ game' = [game EXCEPT !.active = FALSE]
    /\ IF activeBook # Null
       THEN LET saved == ClearProgress(localStorage, activeBook.id)
            IN  /\ localStorage' = saved
                /\ selectedIndices' = WelcomeSelection(saved, activeBook.id)
                /\ resumeBtn' = WelcomeResumeBtn(saved, activeBook.id)
       ELSE UNCHANGED <<localStorage, selectedIndices, resumeBtn>>
    /\ screen' = "welcome"
    /\ last' = Op("exitGame", "none", Null)
    /\ UNCHANGED <<library, activeBook, swipeVars, timers>>

\* an exit that saves but does not call updateWelcomeUI
ExitGameKeepingUI(now) ==
    /\ game' = [game EXCEPT !.active = FALSE]
    /\ IF activeBook # Null
       THEN localStorage' = SaveProgress(localStorage, activeBook.id,
                                         game.playlist, game.currentIndex,
                                         selectedIndices, now)
       ELSE UNCHANGED localStorage
    /\ screen' = "welcome"
    /\ last' = Op("exitGame", "none", Null)
    /\ UNCHANGED <<library, activeBook, selectedIndices, resumeBtn, swipeVars,
                   timers>>

ExitGame(now) ==
    /\ game' = [game EXCEPT !.active = FALSE]
    /\ IF activeBook # Null
       THEN LET saved == SaveProgress(localStorage, activeBook.id,
                                      game.playlist, game.currentIndex,
                                      selectedIndices, now)
            IN  /\ localStorage' = saved
                /\ selectedIndices' = WelcomeSelection(saved, activeBook.id)
                /\ resumeBtn' = WelcomeResumeBtn(saved, activeBook.id)
       ELSE UNCHANGED <<localStorage, selectedIndices, resumeBtn>>
    /\ screen' = "welcome"
    /\ last' = Op("exitGame", "none", Null)
    /\ UNCHANGED <<library, activeBook, swipeVars, timers>>

\* the test of nextQuestion, off by one
CanAdvancePastEnd == game.currentIndex < Len(game.playlist)

\* the test nextQuestion makes before an advance
CanAdvance == game.currentIndex < Len(game.playlist) - 1
\* the test prevQuestion makes before a retreat
CanRetreat == game.currentIndex > 0

\* the body of nextQuestion / prevQuestion once the cursor moves to `index`:
\* updateCardUI, then saveProgress unless updateCardUI threw
MoveTo(index, now) ==
    /\ game' = [game EXCEPT !.currentIndex = index]
    /\ IF CardThrows(game.playlist, index) \/ activeBook = Null
       THEN UNCHANGED localStorage
       ELSE localStorage' = SaveProgress(localStorage, activeBook.id,
                                         game.playlist, index,
                                         selectedIndices, now)

\* a nextQuestion that saves whether or not the cursor moved
NextQuestionAlwaysSaving(now) ==
    IF CanAdvance THEN MoveTo(game.currentIndex + 1, now)
    ELSE /\ UNCHANGED game
         /\ IF activeBook = Null THEN UNCHANGED localStorage
            ELSE localStorage' = SaveProgress(localStorage, activeBook.id,
                                              game.playlist,
                                              game.currentIndex,
                                              selectedIndices, now)

NextQuestion(now) ==
    IF CanAdvance THEN MoveTo(game.currentIndex + 1, now)
    ELSE UNCHANGED <<game, localStorage>>

PrevQuestion(now) ==
    IF CanRetreat THEN MoveTo(game.currentIndex - 1, now)
    ELSE UNCHANGED <<game, localStorage>>

(***************************************************************************)
(* Swipe logic: the handlers of initSwipeAttributes and the callback       *)
(* animateSwipeAndAction defers by 300 ms.                                 *)
(***************************************************************************)
threshold == 100

\* the clientX values a pointer event reports
Xs == {0, 100, 201}

Abs(n) == IF n < 0 THEN -n ELSE n

OnStart(x) ==
    /\ IF ~game.active
       THEN UNCHANGED swipeVars
       ELSE /\ isDragging' = TRUE
            /\ startX' = x
            /\ UNCHANGED currentX
    /\ last' = Op("swipe", "none", Null)
    /\ UNCHANGED <<library, activeBook, selectedIndices, game, localStorage,
                   screen, resumeBtn, timers>>

OnMove(x) ==
    /\ IF ~isDragging
       THEN UNCHANGED swipeVars
       ELSE /\ currentX' = x
            /\ UNCHANGED <<startX, isDragging>>
    /\ last' = Op("swipe", "none", Null)
    /\ UNCHANGED <<library, activeBook, selectedIndices, game, localStorage,
                   screen, resumeBtn, timers>>

\* the callback onEnd hands to animateSwipeAndAction, or "reset" when it
\* calls resetCardPosition
SwipeCommand(dx) ==
    IF Abs(dx) > threshold
    THEN IF dx > 0
         THEN IF game.currentIndex < Len(game.playlist) - 1
              THEN "nextQuestion"
              ELSE "reset"
         ELSE IF game.currentIndex > 0 THEN "prevQuestion" ELSE "reset"
    ELSE "reset"

\* an onEnd that leaves isDragging set
OnEndStillDragging ==
    /\ IF ~isDragging
       THEN UNCHANGED <<swipeVars, timers>>
       ELSE LET command == SwipeCommand(currentX - startX) IN
            /\ UNCHANGED <<startX, currentX, isDragging>>
            /\ IF command = "reset"
               THEN UNCHANGED timers
               ELSE /\ Len(timers) < MaxPending
                    /\ timers' = Append(timers, command)
    /\ last' = Op("swipe", "none", Null)
    /\ UNCHANGED <<library, activeBook, selectedIndices, game, localStorage,
                   screen, resumeBtn>>

OnEnd ==
    /\ IF ~isDragging
       THEN UNCHANGED <<swipeVars, timers>>
       ELSE LET command == SwipeCommand(currentX - startX) IN
            /\ isDragging' = FALSE
            /\ UNCHANGED <<startX, currentX>>
            /\ IF command = "reset"
               THEN UNCHANGED timers
               ELSE /\ Len(timers) < MaxPending
                    /\ timers' = Append(timers, command)
    /\ last' = Op("swipe", "none", Null)
    /\ UNCHANGED <<library, activeBook, selectedIndices, game, localStorage,
                   screen, resumeBtn>>

\* the callback throws a TypeError: updateCardUI on a card that is
\* undefined or null, or saveProgress with no active book
QuestionThrows(command) ==
    LET moves == IF command = "nextQuestion" THEN CanAdvance ELSE CanRetreat
        index == IF command = "nextQuestion" THEN game.currentIndex + 1
                 ELSE game.currentIndex - 1
    IN  moves /\ (CardThrows(game.playlist, index) \/ activeBook = Null)

\* the oldest setTimeout callback comes due and runs
Timeout(now) ==
    /\ timers # <<>>
    /\ timers' = Tail(timers)
    /\ IF Head(timers) = "nextQuestion"
       THEN NextQuestion(now)
       ELSE PrevQuestion(now)
    /\ last' = Op(Head(timers),
                  IF QuestionThrows(Head(timers)) THEN "TypeError" ELSE "none",
                  Null)
    /\ UNCHANGED <<library, activeBook, selectedIndices, screen, resumeBtn,
                   swipeVars>>

(***************************************************************************)
(* Spec: a user studying one book whose sheet keeps its rows, from the     *)
(* page load on.  The fetch syncAll made for that book returns at any      *)
(* moment; the one it made for the other book stays under way.  A drag is  *)
(* released while fewer than SessionPending callbacks wait.  Date.now() is *)
(* any of Times at each save.                                              *)
(***************************************************************************)
\* what a fetch of the book returns while its sheet does not change
StableResults(bookId) ==
    {r \in FetchResults(bookId) : r.ok => Len(r.words) = MaxWords}

SessionBook == "default-sheet-1"

\* the clientX values of the pointer events of a session
SessionXs == {0, 201}

Next ==
    \/ /\ \E result \in StableResults(SessionBook) :
              SyncAll(SessionBook, result)
       /\ UNCHANGED trip
    \/ /\ \E result \in StableResults(SessionBook) :
              OpenBook(SessionBook, result)
       /\ UNCHANGED <<trip, syncing>>
    \/ /\ BackHome
       /\ UNCHANGED <<trip, syncing>>
    \/ /\ \E index \in 0..(MaxWords - 1) : ToggleSelection(index)
       /\ UNCHANGED <<trip, syncing>>
    \/ /\ SelectAll
       /\ UNCHANGED <<trip, syncing>>
    \/ /\ \E isResume \in BOOLEAN, now \in Times : StartGame(isResume, now)
       /\ UNCHANGED <<trip, syncing>>
    \/ /\ \E now \in Times : ExitGame(now)
       /\ UNCHANGED <<trip, syncing>>
    \/ /\ \E x \in SessionXs : OnStart(x)
       /\ UNCHANGED <<trip, syncing>>
    \/ /\ \E x \in SessionXs : OnMove(x)
       /\ UNCHANGED <<trip, syncing>>
    \/ /\ Len(timers) < SessionPending
       /\ OnEnd
       /\ UNCHANGED <<trip, syncing>>
    \/ /\ \E now \in Times : Timeout(now)
       /\ UNCHANGED <<trip, syncing>>

Spec == Init /\ [][Next]_vars

(***************************************************************************)
(* SpecResume: the resume round trip and nothing else.  A book is opened,  *)
(* words are selected, a new game is started, the cursor is advanced by    *)
(* swipes to the right, the game is exited with no callback waiting, the   *)
(* book is opened again and the game is resumed; the fetches of syncAll    *)
(* return at any moment, and the user may go back home before the game and *)
(* after it.  trip remembers the selection and playlist of the new game    *)
(* and counts the calls of nextQuestion that found a next card.            *)
(***************************************************************************)
TripOpen ==
    /\ trip.phase \in {"none", "select"}
    /\ \E bookId \in Books : \E result \in StableResults(bookId) :
           /\ OpenBook(bookId, result)
           /\ trip' = IF result.ok THEN [phase |-> "select"] ELSE trip
    /\ UNCHANGED syncing

\* a fetch syncAll made at page load returns
TripSync ==
    /\ \E bookId \in Books : \E result \in StableResults(bookId) :
           SyncAll(bookId, result)
    /\ UNCHANGED trip

\* the back button of the detail screen, before the game or after it
TripBack ==
    /\ trip.phase \in {"select", "exited", "reopened"}
    /\ BackHome
    /\ UNCHANGED <<trip, syncing>>

TripSelect ==
    /\ trip.phase = "select"
    /\ \/ \E index \in 0..(MaxWords - 1) : ToggleSelection(index)
       \/ SelectAll
    /\ UNCHANGED <<trip, syncing>>

TripStart ==
    /\ trip.phase = "select"
    /\ selectedIndices # <<>>
    /\ \E now \in Times : StartGame(FALSE, now)
    /\ UNCHANGED syncing
    /\ trip' = [phase |-> "playing", k |-> 0, book |-> activeBook.id,
                selection |-> selectedIndices, playlist |-> game'.playlist]

TripSwipe ==
    /\ trip.phase = "playing"
    /\ \/ \E x \in SessionXs : OnStart(x)
       \/ \E x \in SessionXs : OnMove(x)
       \/ /\ isDragging => SwipeCommand(currentX - startX) # "prevQuestion"
          /\ OnEnd
    /\ UNCHANGED <<trip, syncing>>

\* one more call of nextQuestion: it counts in k unless k cards were passed
\* and the last card is shown
TripAdvance ==
    /\ trip.phase = "playing"
    /\ \E now \in Times : Timeout(now)
    /\ UNCHANGED syncing
    /\ trip' = [trip EXCEPT
                   !.k = IF @ + 1 < Len(trip.playlist) THEN @ + 1 ELSE @]

TripExit ==
    /\ trip.phase = "playing"
    /\ timers = <<>>
    /\ \E now \in Times : ExitGame(now)
    /\ UNCHANGED syncing
    /\ trip' = [trip EXCEPT !.phase = "exited"]

TripReopen ==
    /\ trip.phase \in {"exited", "reopened"}
    /\ \E result \in StableResults(trip.book) :
           /\ OpenBook(trip.book, result)
           /\ trip' = IF result.ok
                      THEN [trip EXCEPT !.phase = "reopened"]
                      ELSE trip
    /\ UNCHANGED syncing

TripResume ==
    /\ trip.phase = "reopened"
    /\ \E now \in Times : StartGame(TRUE, now)
    /\ UNCHANGED syncing
    /\ trip' = [trip EXCEPT !.phase = "resumed"]

NextResume ==
    \/ TripSync
    \/ TripBack
    \/ TripOpen
    \/ TripSelect
    \/ TripStart
    \/ TripSwipe
    \/ TripAdvance
    \/ TripExit
    \/ TripReopen
    \/ TripResume

SpecResume == Init /\ [][NextResume]_vars

(***************************************************************************)
(* SpecStore: the page is loaded over whatever an earlier page left: under *)
(* the book's storage key nothing, text that is not JSON, JSON of another  *)
(* shape, or a progress record; under 'library' the count that page had    *)
(* for the book.  Then the book is studied as in Spec, every save at       *)
(* StoreTime.                                                              *)
(***************************************************************************)
JSONText(v) == [type |-> "string", value |-> "json", json |-> v]

\* an object with the properties of a progress record; a property that is
\* missing holds Undefined, as reading it gives
ProgressObject(playlist, currentIndex, originalIndices) ==
    [type |-> "object", playlist |-> playlist, currentIndex |-> currentIndex,
     originalIndices |-> originalIndices, timestamp |-> JNum(0)]

StoredPlaylists ==
    {Undefined, Null, JNum(0), JStr("abc"), JArr(<<>>),
     JArr(<<SheetWord(SessionBook, 0)>>)}

StoredIndices == {Undefined, Null, JStr("0"), JNum(0)}

StoredItems ==
    {Null, JStr(""), JStr("not json"), JSONText(Null), JSONText(JNum(5)),
     JSONText(JArr(<<>>))}
        \cup {JSONText(ProgressObject(p, c, o)) :
                  p \in StoredPlaylists, c \in StoredIndices,
                  o \in {Undefined, JArr(<<0>>)}}

\* the time of every save of SpecStore
StoreTime == 0

InitStore ==
    /\ \E n \in 0..MaxWords :
           library = [b \in Books |->
                         [count |-> IF b = SessionBook THEN n ELSE 0]]
    /\ activeBook = Null
    /\ selectedIndices = <<>>
    /\ game = [active |-> FALSE, playlist |-> <<>>, currentIndex |-> -1]
    /\ \E item \in StoredItems :
           localStorage = [k \in StorageKeys |->
                              IF k = GetStorageKey(SessionBook)
                              THEN item ELSE Null]
    /\ screen = "home"
    /\ resumeBtn = "none"
    /\ startX = 0
    /\ currentX = 0
    /\ isDragging = FALSE
    /\ timers = <<>>
    /\ syncing = Books
    /\ last = Op("init", "none", Null)
    /\ trip = NoTrip

NextStore ==
    \/ /\ \E result \in StableResults(SessionBook) :
              SyncAll(SessionBook, result)
       /\ UNCHANGED trip
    \/ /\ \E result \in StableResults(SessionBook) :
              OpenBook(SessionBook, result)
       /\ UNCHANGED <<trip, syncing>>
    \/ /\ BackHome
       /\ UNCHANGED <<trip, syncing>>
    \/ /\ \E index \in 0..(MaxWords - 1) : ToggleSelection(index)
       /\ UNCHANGED <<trip, syncing>>
    \/ /\ SelectAll
       /\ UNCHANGED <<trip, syncing>>
    \/ /\ \E isResume \in BOOLEAN : StartGame(isResume, StoreTime)
       /\ UNCHANGED <<trip, syncing>>
    \/ /\ ExitGame(StoreTime)
       /\ UNCHANGED <<trip, syncing>>
    \/ /\ \E x \in SessionXs : OnStart(x)
       /\ UNCHANGED <<trip, syncing>>
    \/ /\ \E x \in SessionXs : OnMove(x)
       /\ UNCHANGED <<trip, syncing>>
    \/ /\ Len(timers) < SessionPending
       /\ OnEnd
       /\ UNCHANGED <<trip, syncing>>
    \/ /\ Timeout(StoreTime)
       /\ UNCHANGED <<trip, syncing>>

SpecStore == InitStore /\ [][NextStore]_vars

(***************************************************************************)
(* SpecManager: the methods of StorageManager called one at a time on a    *)
(* store that holds, under each book's key, anything an earlier page left  *)
(* (and under 'library' the counts that page had).                         *)
(* last names the method, the book it was called for and the record        *)
(* loadProgress returned for that book before the call.                    *)
(***************************************************************************)
ManagerOp(name, bookId) ==
    [op |-> name, alert |-> "none", old |-> LoadProgress(bookId),
     book |-> bookId]

InitManager ==
    /\ library \in [Books -> {[count |-> n] : n \in {0, MaxWords}}]
    /\ activeBook = Null
    /\ selectedIndices = <<>>
    /\ game = [active |-> FALSE, playlist |-> <<>>, currentIndex |-> -1]
    /\ localStorage \in [StorageKeys -> StoredItems]
    /\ screen = "home"
    /\ resumeBtn = "none"
    /\ startX = 0
    /\ currentX = 0
    /\ isDragging = FALSE
    /\ timers = <<>>
    /\ syncing = Books
    /\ last = Op("init", "none", Null)
    /\ trip = NoTrip

\* StorageManager.clearProgress(bookId)
ManagerClear(bookId) ==
    /\ localStorage' = ClearProgress(localStorage, bookId)
    /\ last' = ManagerOp("clearProgress", bookId)
    /\ UNCHANGED <<library, activeBook, selectedIndices, game, screen,
                   resumeBtn, swipeVars, timers, syncing, trip>>

\* StorageManager.saveProgress(bookId, playlist, 0, new Set([0]))
ManagerSave(bookId, playlist, now) ==
    /\ localStorage' = SaveProgress(localStorage, bookId, playlist, 0, <<0>>,
                                    now)
    /\ last' = ManagerOp("saveProgress", bookId)
    /\ UNCHANGED <<library, activeBook, selectedIndices, game, screen,
                   resumeBtn, swipeVars, timers, syncing, trip>>

NextManager ==
    \/ \E bookId \in Books : ManagerClear(bookId)
    \/ \E bookId \in Books, now \in Times :
           ManagerSave(bookId, <<SheetWord(bookId, 0)>>, now)

SpecManager == InitManager /\ [][NextManager]_vars

(***************************************************************************)
(* SpecSwipe: one book studied through the card's pointer handlers: a drag *)
(* starts at either end of the card (SessionXs) and moves to any of Xs.    *)
(* The fetch syncAll made for the book returns at any moment, every save   *)
(* is at SwipeTime, and the words of a game are chosen with the select-all *)
(* button.  trip follows the gesture: event is what the                    *)
(* step just taken was ("end": onEnd released a drag; "end ignored" and    *)
(* "start ignored": the handler returned at its guard; "none": anything    *)
(* else), moved tells whether onMove has recorded an X since the drag      *)
(* began, and sched tells, for each callback setTimeout holds, whether     *)
(* the release that scheduled it came during an active session with the    *)
(* gesture's own X beyond the threshold.                                   *)
(***************************************************************************)
InitSwipe ==
    /\ library = [b \in Books |-> [count |-> 0]]
    /\ activeBook = Null
    /\ selectedIndices = <<>>
    /\ game = [active |-> FALSE, playlist |-> <<>>, currentIndex |-> -1]
    /\ localStorage = [k \in StorageKeys |-> Null]
    /\ screen = "home"
    /\ resumeBtn = "none"
    /\ startX = 0
    /\ currentX = 0
    /\ isDragging = FALSE
    /\ timers = <<>>
    /\ syncing = Books
    /\ last = Op("init", "none", Null)
    /\ trip = [phase |-> "swipe", event |-> "none", moved |-> FALSE,
               sched |-> <<>>]

\* the time of every save of SpecSwipe
SwipeTime == 0

\* the X the events of the gesture under way reported last: of its latest
\* move, or of its start when it has not moved
GestureX == IF trip.moved THEN currentX ELSE startX

\* the release of the gesture under way is one past the threshold, made
\* while the session is active
Committed == game.active /\ Abs(GestureX - startX) > threshold

SwipeStart(x) ==
    /\ OnStart(x)
    /\ UNCHANGED syncing
    /\ trip' = IF game.active
               THEN [trip EXCEPT !.event = "none", !.moved = FALSE]
               ELSE [trip EXCEPT !.event = "start ignored"]

SwipeMove(x) ==
    /\ OnMove(x)
    /\ UNCHANGED syncing
    /\ trip' = IF isDragging
               THEN [trip EXCEPT !.event = "none", !.moved = TRUE]
               ELSE [trip EXCEPT !.event = "none"]

SwipeEnd ==
    /\ OnEnd
    /\ UNCHANGED syncing
    /\ trip' = IF isDragging
               THEN [trip EXCEPT !.event = "end",
                                 !.sched = IF timers' = timers THEN @
                                           ELSE Append(@, Committed)]
               ELSE [trip EXCEPT !.event = "end ignored"]

SwipeTimeout ==
    /\ Timeout(SwipeTime)
    /\ UNCHANGED syncing
    /\ trip' = [trip EXCEPT !.event = "none", !.sched = Tail(@)]

\* the fetch syncAll made for the book returns
SwipeSync ==
    /\ \E result \in StableResults(SessionBook) : SyncAll(SessionBook, result)
    /\ trip' = [trip EXCEPT !.event = "none"]

\* a step of the screens around the card
SwipeOther ==
    /\ \/ \E result \in StableResults(SessionBook) :
              OpenBook(SessionBook, result)
       \/ BackHome
       \/ SelectAll
       \/ \E isResume \in BOOLEAN : StartGame(isResume, SwipeTime)
       \/ ExitGame(SwipeTime)
    /\ UNCHANGED syncing
    /\ trip' = [trip EXCEPT !.event = "none"]

NextSwipe ==
    \/ SwipeSync
    \/ SwipeOther
    \/ \E x \in SessionXs : SwipeStart(x)
    \/ \E x \in Xs : SwipeMove(x)
    \/ SwipeEnd
    \/ SwipeTimeout

SpecSwipe == InitSwipe /\ [][NextSwipe]_vars

(***************************************************************************)
(* SpecParse: the published sheet of the book is any text of at most       *)
(* MaxRows lines, written down line by line and field by field, and        *)
(* openBook loads it through CSVFetcher.parse.  A field is what the sheet  *)
(* holds in the cell (core), written with or without white space on either *)
(* side (an ideographic space before it, a blank after it); header tells   *)
(* whether the cell is one of the header words.                            *)
(***************************************************************************)
Field(core, padded, header) ==
    [core |-> core, padded |-> padded, header |-> header]

FirstFields ==
    {Field(<<>>, FALSE, FALSE), Field(<<>>, TRUE, FALSE),
     Field(<<"a">>, FALSE, FALSE), Field(<<"a", " ", "b">>, TRUE, FALSE),
     Field(<<"W", "o", "r", "d">>, FALSE, TRUE),
     Field(<<"C", "O", "N", "T", "E", "N", "T">>, FALSE, TRUE),
     Field(<<"x", "U+984C", "U+76EE">>, TRUE, TRUE)}

SecondFields == {Field(<<>>, FALSE, FALSE), Field(<<"z">>, TRUE, FALSE)}

\* the lines of a sheet: one, two or three fields
CsvRows ==
    {<<f>> : f \in FirstFields}
        \cup {<<f, g>> : f \in FirstFields, g \in SecondFields}
        \cup {<<Field(<<"a">>, FALSE, FALSE), Field(<<"z">>, FALSE, FALSE),
                Field(<<"c">>, FALSE, FALSE)>>}

Sheets == UNION {[1..n -> CsvRows] : n \in 0..MaxRows}

\* the line ends of a sheet
LineEnds == {<<"\n">>, <<"\r", "\n">>}

FieldText(f) ==
    IF f.padded THEN <<"U+3000">> \o f.core \o <<" ">> ELSE f.core

RECURSIVE Join(_, _)
\* the texts of `pieces` with `sep` between them
Join(pieces, sep) ==
    IF pieces = <<>> THEN <<>>
    ELSE IF Len(pieces) = 1 THEN pieces[1]
         ELSE pieces[1] \o sep \o Join(Tail(pieces), sep)

RowText(row) == Join([i \in DOMAIN row |-> FieldText(row[i])], <<",">>)

\* the text response.text() gives for the sheet
SheetText(rows, eol) == Join([i \in DOMAIN rows |-> RowText(rows[i])], eol)

InitParse ==
    /\ library = [b \in Books |-> [count |-> 0]]
    /\ activeBook = Null
    /\ selectedIndices = <<>>
    /\ game = [active |-> FALSE, playlist |-> <<>>, currentIndex |-> -1]
    /\ localStorage = [k \in StorageKeys |-> Null]
    /\ screen = "home"
    /\ resumeBtn = "none"
    /\ startX = 0
    /\ currentX = 0
    /\ isDragging = FALSE
    /\ timers = <<>>
    /\ syncing = Books
    /\ last = Op("init", "none", Null)
    /\ \E rows \in Sheets, eol \in LineEnds :
           trip = [phase |-> "sheet", rows |-> rows, eol |-> eol,
                   title |-> Undefined]

\* openBook of the book, whose fetch returns the sheet
ParseOpen ==
    /\ trip.phase = "sheet"
    /\ LET result == Parse(SheetText(trip.rows, trip.eol)) IN
       /\ OpenBook(SessionBook, [ok |-> TRUE, words |-> result.words])
       /\ trip' = [trip EXCEPT !.phase = "parsed", !.title = result.title]
    /\ UNCHANGED syncing

NextParse == ParseOpen

SpecParse == InitParse /\ [][NextParse]_vars

(***************************************************************************)
(* SpecShuffle: shuffle called on its own with any array of at most        *)
(* MaxShuffle distinct words and any picks Math.random can give.  trip     *)
(* holds the array, the picks and the array shuffle returned.              *)
(***************************************************************************)
\* the arrays of distinct words of the book, of every length and order
ShuffleInputs ==
    LET words == {SheetWord(SessionBook, i) : i \in 0..(MaxShuffle - 1)} IN
    {array \in UNION {[1..n -> words] : n \in 0..MaxShuffle} :
        \A i, j \in DOMAIN array : array[i] = array[j] => i = j}

InitShuffle ==
    /\ library = [b \in Books |-> [count |-> 0]]
    /\ activeBook = Null
    /\ selectedIndices = <<>>
    /\ game = [active |-> FALSE, playlist |-> <<>>, currentIndex |-> -1]
    /\ localStorage = [k \in StorageKeys |-> Null]
    /\ screen = "home"
    /\ resumeBtn = "none"
    /\ startX = 0
    /\ currentX = 0
    /\ isDragging = FALSE
    /\ timers = <<>>
    /\ syncing = Books
    /\ last = Op("init", "none", Null)
    /\ \E array \in ShuffleInputs :
           trip = [phase |-> "array", array |-> array, picks |-> <<>>,
                   result |-> <<>>]

\* shuffle(array)
ShuffleCall ==
    /\ trip.phase = "array"
    /\ \E random \in RandomPicks(Len(trip.array)) :
           trip' = [trip EXCEPT !.phase = "shuffled", !.picks = random,
                                !.result = Shuffle(trip.array, random)]
    /\ UNCHANGED <<library, activeBook, selectedIndices, game, localStorage,
                   screen, resumeBtn, swipeVars, timers, syncing, last>>

NextShuffle == ShuffleCall

SpecShuffle == InitShuffle /\ [][NextShuffle]_vars

(***************************************************************************)
(* SpecBooks: both books of the library, used through the controls each    *)
(* screen shows.  A click on a book card of the home screen calls          *)
(* openBook, which waits for loadBook; the fetch completes at any later    *)
(* step, also after another book was opened and a game started.  The       *)
(* detail screen offers the selection, the start button (disabled while    *)
(* nothing is selected), the resume button when it is displayed and the    *)
(* way back home; the game screen offers the card and the exit button.     *)
(* mousemove and mouseup are listened for on the window.  The sheet of     *)
(* the first book has MaxWords rows and the sheet of the other MinWords;   *)
(* the fetch syncAll made for the first book returns at any moment, the    *)
(* other stays under way; at most MaxLoading calls of openBook wait at     *)
(* once and SessionPending callbacks.  trip.loading counts, for each book, *)
(* the calls of openBook that wait for their fetch (a card can be clicked  *)
(* again while its fetch waits), trip.built is the selection the latest    *)
(* new game of each book was built from.                                   *)
(***************************************************************************)
InitBooks ==
    /\ library = [b \in Books |-> [count |-> 0]]
    /\ activeBook = Null
    /\ selectedIndices = <<>>
    /\ game = [active |-> FALSE, playlist |-> <<>>, currentIndex |-> -1]
    /\ localStorage = [k \in StorageKeys |-> Null]
    /\ screen = "home"
    /\ resumeBtn = "none"
    /\ startX = 0
    /\ currentX = 0
    /\ isDragging = FALSE
    /\ timers = <<>>
    /\ syncing = Books
    /\ last = Op("init", "none", Null)
    /\ trip = [phase |-> "books", loading |-> [b \in Books |-> 0],
               built |-> [b \in Books |-> Null]]

\* the time of every save of SpecBooks
BooksTime == 0

\* the outcomes of a fetch in SpecBooks: the sheet of the first book has
\* MaxWords rows, the sheet of the other MinWords
BooksResults(bookId) ==
    {r \in FetchResults(bookId) :
         r.ok => Len(r.words) = IF bookId = SessionBook
                                THEN MaxWords ELSE MinWords}

\* the calls of openBook that wait for their fetch
Loading ==
    Cardinality({p \in Books \X (1..MaxLoading) : p[2] <= trip.loading[p[1]]})

\* a click on the card of bookId in the home screen: openBook up to its await
BooksClick(bookId) ==
    /\ screen = "home"
    /\ Loading < MaxLoading
    /\ UNCHANGED syncing
    /\ trip' = [trip EXCEPT !.loading[bookId] = @ + 1]
    /\ last' = Op("click", "none", Null)
    /\ UNCHANGED <<library, activeBook, selectedIndices, game, localStorage,
                   screen, resumeBtn, swipeVars, timers>>

\* the fetch of a waiting openBook completes and openBook runs to its end
BooksLoaded(bookId) ==
    /\ trip.loading[bookId] > 0
    /\ \E result \in BooksResults(bookId) : OpenBook(bookId, result)
    /\ UNCHANGED syncing
    /\ trip' = [trip EXCEPT !.loading[bookId] = @ - 1]

\* a fetch syncAll made at page load returns
BooksSync ==
    /\ \E result \in BooksResults(SessionBook) :
           SyncAll(SessionBook, result)
    /\ UNCHANGED trip

BooksBack ==
    /\ screen = "welcome"
    /\ BackHome
    /\ UNCHANGED <<trip, syncing>>

BooksSelect ==
    /\ screen = "welcome"
    /\ \/ \E index \in 0..(MaxWords - 1) : ToggleSelection(index)
       \/ SelectAll
    /\ UNCHANGED <<trip, syncing>>

BooksStart ==
    /\ screen = "welcome"
    /\ selectedIndices # <<>>
    /\ StartGame(FALSE, BooksTime)
    /\ UNCHANGED syncing
    /\ trip' = [trip EXCEPT !.built[activeBook.id] = selectedIndices]

BooksResume ==
    /\ screen = "welcome"
    /\ resumeBtn = "flex"
    /\ StartGame(TRUE, BooksTime)
    /\ UNCHANGED syncing
    /\ trip' = IF Alerted(last'.alert)
               THEN [trip EXCEPT !.built[activeBook.id] = selectedIndices]
               ELSE trip

BooksExit ==
    /\ screen = "game"
    /\ ExitGame(BooksTime)
    /\ UNCHANGED <<trip, syncing>>

\* a swipe of the card to the right, released
BooksSwipe ==
    /\ \/ screen = "game" /\ OnStart(0)
       \/ OnMove(201)
       \/ Len(timers) < SessionPending /\ OnEnd
    /\ UNCHANGED <<trip, syncing>>

BooksTimeout ==
    /\ Timeout(BooksTime)
    /\ UNCHANGED <<trip, syncing>>

NextBooks ==
    \/ BooksSync
    \/ \E bookId \in Books : BooksClick(bookId)
    \/ \E bookId \in Books : BooksLoaded(bookId)
    \/ BooksBack
    \/ BooksSelect
    \/ BooksStart
    \/ BooksResume
    \/ BooksExit
    \/ BooksSwipe
    \/ BooksTimeout

SpecBooks == InitBooks /\ [][NextBooks]_vars

(***************************************************************************)
(* SpecSheet: one book whose published sheet changes between loads: every  *)
(* fetch returns the first MinWords..MaxWords rows.  The book is used      *)
(* through the controls each screen shows, as in SpecBooks: a click on its *)
(* card calls openBook, whose fetch completes at any later step, on        *)
(* whatever screen is shown then; at most MaxLoading calls of openBook     *)
(* wait at once and SessionPending callbacks.  The fetch syncAll made for  *)
(* the book returns at any moment.  trip.loading counts the calls of       *)
(* openBook that wait for their fetch.                                     *)
(***************************************************************************)
InitSheet ==
    /\ library = [b \in Books |-> [count |-> 0]]
    /\ activeBook = Null
    /\ selectedIndices = <<>>
    /\ game = [active |-> FALSE, playlist |-> <<>>, currentIndex |-> -1]
    /\ localStorage = [k \in StorageKeys |-> Null]
    /\ screen = "home"
    /\ resumeBtn = "none"
    /\ startX = 0
    /\ currentX = 0
    /\ isDragging = FALSE
    /\ timers = <<>>
    /\ syncing = Books
    /\ last = Op("init", "none", Null)
    /\ trip = [phase |-> "sheet", loading |-> 0]

\* the time of every save of SpecSheet
SheetTime == 0

\* a click on the card of the book in the home screen: openBook up to its
\* await
SheetClick ==
    /\ screen = "home"
    /\ trip.loading < MaxLoading
    /\ trip' = [trip EXCEPT !.loading = @ + 1]
    /\ last' = Op("click", "none", Null)
    /\ UNCHANGED <<library, activeBook, selectedIndices, game, localStorage,
                   screen, resumeBtn, swipeVars, timers, syncing>>

\* the fetch of a waiting openBook completes and openBook runs to its end
SheetLoaded ==
    /\ trip.loading > 0
    /\ \E result \in FetchResults(SessionBook) : OpenBook(SessionBook, result)
    /\ trip' = [trip EXCEPT !.loading = @ - 1]
    /\ UNCHANGED syncing

\* the fetch syncAll made for the book at page load returns
SheetSync ==
    /\ \E result \in FetchResults(SessionBook) : SyncAll(SessionBook, result)
    /\ UNCHANGED trip

SheetBack ==
    /\ screen = "welcome"
    /\ BackHome
    /\ UNCHANGED <<trip, syncing>>

SheetSelect ==
    /\ screen = "welcome"
    /\ \/ SelectAll
       \/ \E index \in 0..(MaxWords - 1) : ToggleSelection(index)
    /\ UNCHANGED <<trip, syncing>>

SheetStart ==
    /\ screen = "welcome"
    /\ \/ selectedIndices # <<>> /\ StartGame(FALSE, SheetTime)
       \/ resumeBtn = "flex" /\ StartGame(TRUE, SheetTime)
    /\ UNCHANGED <<trip, syncing>>

SheetExit ==
    /\ screen = "game"
    /\ ExitGame(SheetTime)
    /\ UNCHANGED <<trip, syncing>>

SheetSwipe ==
    /\ \/ screen = "game" /\ \E x \in SessionXs : OnStart(x)
       \/ \E x \in SessionXs : OnMove(x)
       \/ Len(timers) < SessionPending /\ OnEnd
    /\ UNCHANGED <<trip, syncing>>

SheetTimeout ==
    /\ Timeout(SheetTime)
    /\ UNCHANGED <<trip, syncing>>

NextSheet ==
    \/ SheetSync
    \/ SheetClick
    \/ SheetLoaded
    \/ SheetBack
    \/ SheetSelect
    \/ SheetStart
    \/ SheetExit
    \/ SheetSwipe
    \/ SheetTimeout

SpecSheet == InitSheet /\ [][NextSheet]_vars

(***************************************************************************)
(* SpecApp: the earlier, non-resumable variant (src/app.js).  It keeps no  *)
(* progress record: state.game is {active, history, currentIndex}, and     *)
(* nextQuestion draws a word at random when the cursor is at the end of    *)
(* the history.  toggleSelection, the select-all handler, the back button  *)
(* and the onStart and onMove of the card have the same text in both files *)
(* and are used as defined above.  LibraryManager has the same text too:   *)
(* the fetch syncAll made for the book returns at any moment.  One book is *)
(* used through the controls each screen shows: a click on its card calls  *)
(* openBook, whose fetch completes at any later step, on whatever screen   *)
(* is shown then; mousemove and mouseup are listened for on the window.    *)
(* At most MaxLoading calls of openBook wait at once and SessionPending    *)
(* callbacks, and a history holds at most MaxHistory entries.  The rows of *)
(* a sheet may repeat a term: a Word is told from the others of its sheet  *)
(* by its zhuyin.  trip.loading counts the calls of openBook that wait for *)
(* their fetch.                                                            *)
(***************************************************************************)
\* the word lists a fetch can return: rows over the terms "A" and "B"
AppSheets ==
    UNION {{[i \in 1..n |-> [term |-> terms[i], zhuyin |-> i]] :
               terms \in [1..n -> {"A", "B"}]} : n \in 2..MaxAppWords}

AppFetchResults ==
    {[ok |-> TRUE, words |-> w] : w \in AppSheets}
        \cup {[ok |-> FALSE, words |-> <<>>]}

AppInit ==
    /\ library = [b \in Books |-> [count |-> 0]]
    /\ activeBook = Null
    /\ selectedIndices = <<>>
    /\ game = [active |-> FALSE, history |-> <<>>, currentIndex |-> -1]
    /\ localStorage = [k \in StorageKeys |-> Null]
    /\ screen = "home"
    /\ resumeBtn = "none"
    /\ startX = 0
    /\ currentX = 0
    /\ isDragging = FALSE
    /\ timers = <<>>
    /\ syncing = Books
    /\ last = Op("init", "none", Null)
    /\ trip = [phase |-> "app", loading |-> 0]

\* openBook of src/app.js, from the return of its fetch to the end of the
\* handler
AppOpenBook(bookId, result) ==
    IF ~result.ok
    THEN /\ last' = Op("openBook", "csv", Null)
         /\ UNCHANGED <<library, activeBook, selectedIndices, game,
                        localStorage, screen, resumeBtn, swipeVars, timers>>
    ELSE /\ library' = LoadBookLibrary(bookId, result.words)
         /\ activeBook' = [id |-> bookId, words |-> result.words]
         /\ selectedIndices' = <<>>
         /\ screen' = "welcome"
         /\ last' = Op("openBook", "none", Null)
         /\ UNCHANGED <<game, localStorage, resumeBtn, swipeVars, timers>>

\* the indices getRandomWord draws from
Available ==
    IF Len(game.history) > 0 /\ Len(selectedIndices) > 1
    THEN LET current == At(game.history, game.currentIndex).term IN
         SelectSeq(selectedIndices,
                   LAMBDA idx : At(activeBook.words, idx).term # current)
    ELSE selectedIndices

\* getRandomWord reads .term of history[currentIndex]: a TypeError when the
\* entry is undefined
GetRandomWordThrows ==
    /\ Len(game.history) > 0
    /\ Len(selectedIndices) > 1
    /\ At(game.history, game.currentIndex) = Undefined

\* the values Math.floor(Math.random() * available.length) can take
AppRandoms == 0..(IF Available = <<>> THEN 0 ELSE Len(Available) - 1)

\* getRandomWord with Math.floor(Math.random() * available.length) = random:
\* available[random] is undefined when available is empty, and so is
\* words[undefined]
GetRandomWord(random) ==
    IF Available = <<>> THEN Undefined
    ELSE At(activeBook.words, At(Available, random))

\* nextQuestion of src/app.js
AppNextQuestion ==
    IF game.currentIndex < Len(game.history) - 1
    THEN game' = [game EXCEPT !.currentIndex = @ + 1]
    ELSE IF GetRandomWordThrows THEN UNCHANGED game
         ELSE /\ Len(game.history) < MaxHistory
              /\ \E random \in AppRandoms :
                     game' = [game EXCEPT
                                 !.history = Append(@, GetRandomWord(random)),
                                 !.currentIndex = @ + 1]

\* prevQuestion of src/app.js
AppPrevQuestion ==
    IF game.currentIndex > 0
    THEN game' = [game EXCEPT !.currentIndex = @ - 1]
    ELSE UNCHANGED game

\* nextQuestion ends in a TypeError: thrown by getRandomWord, or by
\* updateCardUI on a card that is undefined
AppThrows ==
    \/ game' = game
    \/ At(game'.history, game'.currentIndex) = Undefined

\* startGame of src/app.js, with the nextQuestion it ends in: the history is
\* empty, so getRandomWord draws from the whole selection
AppStartGame ==
    /\ IF Len(selectedIndices) = 0
       THEN /\ UNCHANGED <<game, screen>>
            /\ last' = Op("startGame", "none", Null)
       ELSE /\ \E random \in 0..(Len(selectedIndices) - 1) :
                   LET word == At(activeBook.words, At(selectedIndices, random))
                   IN  game' = [active |-> TRUE, history |-> <<word>>,
                                currentIndex |-> 0]
            /\ screen' = "game"
            /\ last' = Op("startGame", "none", Null)
    /\ UNCHANGED <<library, activeBook, selectedIndices, localStorage,
                   resumeBtn, swipeVars, timers>>

\* exitGame of src/app.js
AppExitGame ==
    /\ game' = [game EXCEPT !.active = FALSE]
    /\ screen' = "welcome"
    /\ last' = Op("exitGame", "none", Null)
    /\ UNCHANGED <<library, activeBook, selectedIndices, localStorage,
                   resumeBtn, swipeVars, timers>>

\* onEnd of src/app.js: command is the callback it hands to
\* animateSwipeAndAction, or "reset" when it calls resetCardPosition; every
\* swipe to the right commits nextQuestion
AppOnEnd ==
    /\ IF ~isDragging
       THEN UNCHANGED <<swipeVars, timers>>
       ELSE LET dx == currentX - startX
                command ==
                    IF Abs(dx) > threshold
                    THEN IF dx > 0 THEN "nextQuestion"
                         ELSE IF game.currentIndex > 0
                              THEN "prevQuestion" ELSE "reset"
                    ELSE "reset"
            IN
            /\ isDragging' = FALSE
            /\ UNCHANGED <<startX, currentX>>
            /\ IF command = "reset"
               THEN UNCHANGED timers
               ELSE /\ Len(timers) < MaxPending
                    /\ timers' = Append(timers, command)
    /\ last' = Op("swipe", "none", Null)
    /\ UNCHANGED <<library, activeBook, selectedIndices, game, localStorage,
                   screen, resumeBtn>>

\* the oldest setTimeout callback of src/app.js comes due and runs;
\* prevQuestion ends in a TypeError, thrown by updateCardUI, when the card
\* it moved back to is undefined
AppTimeout ==
    /\ timers # <<>>
    /\ timers' = Tail(timers)
    /\ IF Head(timers) = "nextQuestion"
       THEN /\ AppNextQuestion
            /\ last' = Op("nextQuestion",
                           IF AppThrows THEN "TypeError" ELSE "none", Null)
       ELSE /\ AppPrevQuestion
            /\ last' = Op("prevQuestion",
                           IF /\ game.currentIndex > 0
                              /\ At(game'.history, game'.currentIndex)
                                     = Undefined
                           THEN "TypeError" ELSE "none", Null)
    /\ UNCHANGED <<library, activeBook, selectedIndices, localStorage, screen,
                   resumeBtn, swipeVars>>

\* a click on the card of the book in the home screen: openBook of
\* src/app.js up to its await
AppClick ==
    /\ screen = "home"
    /\ trip.loading < MaxLoading
    /\ trip' = [trip EXCEPT !.loading = @ + 1]
    /\ last' = Op("click", "none", Null)
    /\ UNCHANGED <<library, activeBook, selectedIndices, game, localStorage,
                   screen, resumeBtn, swipeVars, timers, syncing>>

\* the fetch of a waiting openBook completes and openBook runs to its end
AppLoaded ==
    /\ trip.loading > 0
    /\ \E result \in AppFetchResults : AppOpenBook(SessionBook, result)
    /\ trip' = [trip EXCEPT !.loading = @ - 1]
    /\ UNCHANGED syncing

NextApp ==
    \/ /\ \E result \in AppFetchResults : SyncAll(SessionBook, result)
       /\ UNCHANGED trip
    \/ AppClick
    \/ AppLoaded
    \/ /\ screen = "welcome"
       /\ BackHome
       /\ UNCHANGED <<trip, syncing>>
    \/ /\ screen = "welcome"
       /\ \E index \in 0..(MaxAppWords - 1) : ToggleSelection(index)
       /\ UNCHANGED <<trip, syncing>>
    \/ /\ screen = "welcome"
       /\ SelectAll
       /\ UNCHANGED <<trip, syncing>>
    \/ /\ screen = "welcome"
       /\ AppStartGame
       /\ UNCHANGED <<trip, syncing>>
    \/ /\ screen = "game"
       /\ AppExitGame
       /\ UNCHANGED <<trip, syncing>>
    \/ /\ screen = "game"
       /\ \E x \in SessionXs : OnStart(x)
       /\ UNCHANGED <<trip, syncing>>
    \/ /\ \E x \in SessionXs : OnMove(x)
       /\ UNCHANGED <<trip, syncing>>
    \/ /\ Len(timers) < SessionPending
       /\ AppOnEnd
       /\ UNCHANGED <<trip, syncing>>
    \/ /\ AppTimeout
       /\ UNCHANGED <<trip, syncing>>

SpecApp == AppInit /\ [][NextApp]_vars

(***************************************************************************)
(* Properties of the session.                                              *)
(***************************************************************************)
\* the session operations: start, exit, advance, retreat
SessionOps ==
    {"startGame(false)", "startGame(true)", "exitGame", "nextQuestion",
     "prevQuestion"}

\* last is a call of startGame that took the new-game branch
StartedNew ==
    \/ last.op = "startGame(false)"
    \/ last.op = "startGame(true)" /\ Alerted(last.alert)

\* C1: whenever the session is active, the cursor is an index of the
\* playlist: 0 <= currentIndex < playlist.length.
C1_ActiveCursorInPlaylist ==
    game.active =>
        /\ 0 <= game.currentIndex
        /\ game.currentIndex < Len(game.playlist)

\* C2: right after exitGame, nextQuestion, prevQuestion or a startGame that
\* left the session active, loadProgress(activeBook.id) returns a record
\* whose currentIndex and playlist equal state.game.currentIndex and
\* state.game.playlist.
C2_StoredEqualsMemory ==
    (/\ last.op \in SessionOps
     /\ activeBook # Null
     /\ last.op \in {"startGame(false)", "startGame(true)"} => game.active) =>
        LET progress == LoadProgress(activeBook.id) IN
        /\ progress # Null
        /\ progress.currentIndex.value = game.currentIndex
        /\ progress.playlist.items = game.playlist

\* C5: startGame(false) with an empty selection changes nothing: the
\* session does not become active, playlist, cursor and progress store stay
\* as they were, and the game screen is not entered.
C5_EmptyStartIsNoOp ==
    [][(last'.op = "startGame(false)" /\ selectedIndices = <<>>) =>
           /\ game' = game
           /\ localStorage' = localStorage
           /\ screen' = screen
           /\ screen' # "game"]_vars

\* C6: startGame(true) that finds no valid record raises the notice and
\* ends as a fresh start does: an active session at cursor 0 on the game
\* screen whose playlist is stored, never a session that is active without
\* a card to show.
C6_ResumeFallbackStartsFresh ==
    (last.op = "startGame(true)" /\ last.old = Null /\ activeBook # Null) =>
        /\ Alerted(last.alert)
        /\ game.active
        /\ game.currentIndex = 0
        /\ Len(game.playlist) > 0
        /\ screen = "game"
        /\ LoadProgress(activeBook.id) # Null
        /\ LoadProgress(activeBook.id).playlist.items = game.playlist

\* the number of entries of array equal to x
Count(x, array) == Cardinality({i \in DOMAIN array : array[i] = x})

\* a and b hold the same entries the same number of times
IsPermutation(a, b) ==
    /\ Len(a) = Len(b)
    /\ \A x \in Range(a) \cup Range(b) : Count(x, a) = Count(x, b)

\* every selected index is an index of the active book's word list
SelectionValid ==
    \A i \in DOMAIN selectedIndices :
        selectedIndices[i] \in 0..(Len(activeBook.words) - 1)

\* C4: a new game started with a non-empty selection on a book that has a
\* stored record leaves a record that holds only the new game: its playlist
\* is a permutation of the words at the selected indices, its currentIndex
\* is 0 and its originalIndices is the selection.
C4_NewGameReplacesRecord ==
    (StartedNew /\ selectedIndices # <<>> /\ last.old # Null) =>
        LET progress == LoadProgress(activeBook.id)
            pool == Pool(selectedIndices, activeBook.words)
        IN  /\ progress # Null
            /\ IsPermutation(progress.playlist.items, StringifyItems(pool))
            /\ progress.playlist.items = StringifyItems(game.playlist)
            /\ progress.currentIndex = JNum(0)
            /\ progress.originalIndices = JArr(selectedIndices)
            /\ DOMAIN progress = {"type", "playlist", "currentIndex",
                                  "originalIndices", "timestamp"}

\* a new game has replaced a record of another selection whose cursor had
\* advanced
C4_Witness ==
    /\ last.op = "startGame(false)"
    /\ selectedIndices # <<>>
    /\ last.old # Null
    /\ last.old.originalIndices.items # selectedIndices
    /\ Len(last.old.playlist.items) # Len(selectedIndices)
    /\ last.old.currentIndex.value > 0

\* C7: the playlist a new game builds from a non-empty selection of valid
\* indices is a permutation of the words at those indices, of length |S|,
\* whatever Math.random returns.
C7_PlaylistIsPermutationOfSelection ==
    (StartedNew /\ selectedIndices # <<>> /\ SelectionValid) =>
        /\ Len(game.playlist) = Len(selectedIndices)
        /\ IsPermutation(game.playlist,
                         Pool(selectedIndices, activeBook.words))
        /\ \A i \in DOMAIN game.playlist :
               game.playlist[i] \in Range(activeBook.words)

\* a new game whose shuffle changed the order of the pool
C7_Witness ==
    /\ StartedNew
    /\ Len(game.playlist) > 1
    /\ SelectionValid
    /\ game.playlist # Pool(selectedIndices, activeBook.words)

\* C8: a call of nextQuestion moves the cursor by one at most and never
\* beyond playlist.length - 1; a call of prevQuestion moves it by one at
\* most and never below 0.
C8_CursorStaysInPlaylist ==
    [][/\ last'.op = "nextQuestion" =>
              \/ game'.currentIndex = game.currentIndex
              \/ /\ game'.currentIndex = game.currentIndex + 1
                 /\ game'.currentIndex <= Len(game'.playlist) - 1
       /\ last'.op = "prevQuestion" =>
              \/ game'.currentIndex = game.currentIndex
              \/ /\ game'.currentIndex = game.currentIndex - 1
                 /\ game'.currentIndex >= 0]_vars

\* a deferred nextQuestion has put the cursor on the last card while another
\* nextQuestion, scheduled before it ran, is still waiting
C8_Witness ==
    /\ last.op = "nextQuestion"
    /\ timers # <<>>
    /\ Head(timers) = "nextQuestion"
    /\ Len(game.playlist) > 1
    /\ game.currentIndex = Len(game.playlist) - 1

\* C9: no step removes a stored record: a book for which loadProgress
\* returns a record before a step has one after it, also across exitGame
\* and across a new-game start, which writes the replacement in the step
\* that clears the old record.
C9_RecordNeverDeleted ==
    [][\A b \in Books :
           LoadProgressFrom(localStorage, b) # Null =>
               LoadProgressFrom(localStorage', b) # Null]_vars

\* exitGame has run on a session that was resumed from a stored record, and
\* the record is still there
C9_Witness ==
    /\ last.op = "exitGame"
    /\ activeBook # Null
    /\ resumeBtn = "flex"
    /\ Len(game.playlist) > 0
    /\ LoadProgress(activeBook.id) # Null
    /\ LoadProgress(activeBook.id).currentIndex.value > 0

\* C3: after a new game with a non-empty selection, k calls of nextQuestion
\* (k < playlist.length), exitGame, openBook of the same book and
\* startGame(true), the session is active, the cursor is k, the playlist is
\* the one the new game built and the selection is the one it was built
\* from.
C3_ResumeRoundTrip ==
    (trip.phase = "resumed" /\ last.op = "startGame(true)") =>
        /\ game.active
        /\ last.alert = "none"
        /\ activeBook.id = trip.book
        /\ game.currentIndex = trip.k
        /\ game.playlist = trip.playlist
        /\ selectedIndices = trip.selection

\* a game of more than one card was resumed after an advance
C3_Witness ==
    /\ trip.phase = "resumed"
    /\ trip.k > 0
    /\ Len(trip.selection) > 1
    /\ screen = "game"

\* the claim's reading of what a storage key holds
NoEntry(item) == item = Null
NotParseable(item) == item.type = "string" /\ "json" \notin DOMAIN item
PlaylistNotSequence(item) ==
    \/ item.json.type # "object"
    \/ item.json.playlist.type # "array"
CursorNotNumber(item) ==
    \/ item.json.type # "object"
    \/ item.json.currentIndex.type # "number"

\* C10: loadProgress never throws; it returns null when the key holds
\* nothing, when the text does not parse, when playlist is missing or is
\* not an array, or when currentIndex is not a number; otherwise it returns
\* the stored record.
C10_LoadProgressValidates ==
    \A b \in Books :
        LET item == localStorage[GetStorageKey(b)]
            result == LoadProgress(b)
        IN  /\ result # Thrown
            /\ IF \/ NoEntry(item)
                  \/ NotParseable(item)
                  \/ PlaylistNotSequence(item)
                  \/ CursorNotNumber(item)
               THEN result = Null
               ELSE result = item.json

\* openBook has called loadProgress on text that parses to null, on which
\* reading data.playlist throws, and shows no resume button
C10_Witness ==
    /\ last.op = "openBook"
    /\ activeBook # Null
    /\ activeBook.id = SessionBook
    /\ localStorage[GetStorageKey(SessionBook)] = JSONText(Null)
    /\ resumeBtn = "none"

\* C11: for every book id, clearProgress(bookId) followed by
\* loadProgress(bookId) returns null, whatever the key held before, and
\* what the keys of the other books hold is left as it was.
C11_ClearThenLoadAbsent ==
    [][\A b \in Books :
           (last'.op = "clearProgress" /\ last'.book = b) =>
               /\ LoadProgressFrom(localStorage', b) = Null
               /\ \A other \in Books \ {b} :
                      GetItem(localStorage', GetStorageKey(other)) =
                          GetItem(localStorage, GetStorageKey(other))]_vars

\* clearProgress has removed a valid record of one book while the other
\* book keeps its own
C11_Witness ==
    /\ last.op = "clearProgress"
    /\ last.old # Null
    /\ LoadProgress(last.book) = Null
    /\ \E other \in Books \ {last.book} : LoadProgress(other) # Null

\* C12: a gesture released with its last reported X less than 100 from its
\* origin, to either side, resets: cursor, playlist and stored records stay
\* as they are and no callback is scheduled.
C12_SmallDragResets ==
    [][(trip'.event = "end" /\ Abs(GestureX - startX) < threshold) =>
           /\ timers' = timers
           /\ game' = game
           /\ localStorage' = localStorage]_vars

\* C13: a gesture released more than 100 to the right of its origin while
\* the session is active leaves everything as it is when the cursor is on
\* the last card; otherwise it commits one nextQuestion, by which the
\* cursor grows by exactly 1 and the stored currentIndex becomes the new
\* cursor.
C13_RightSwipeAdvancesOnce ==
    [][/\ (/\ trip'.event = "end"
           /\ game.active
           /\ GestureX - startX > threshold) =>
              /\ game' = game
              /\ localStorage' = localStorage
              /\ timers' = IF game.currentIndex < Len(game.playlist) - 1
                           THEN Append(timers, "nextQuestion")
                           ELSE timers
       /\ (last'.op = "nextQuestion" /\ Head(trip.sched)) =>
              /\ game'.currentIndex = game.currentIndex + 1
              /\ game'.playlist = game.playlist
              /\ LoadProgressFrom(localStorage', activeBook.id) # Null
              /\ LoadProgressFrom(localStorage', activeBook.id)
                     .currentIndex.value = game'.currentIndex]_vars

\* C14: a gesture released more than 100 to the left of its origin while
\* the session is active leaves everything as it is when the cursor is 0;
\* otherwise it commits one prevQuestion, by which the cursor shrinks by
\* exactly 1 and the stored currentIndex becomes the new cursor.
C14_LeftSwipeRetreatsOnce ==
    [][/\ (/\ trip'.event = "end"
           /\ game.active
           /\ startX - GestureX > threshold) =>
              /\ game' = game
              /\ localStorage' = localStorage
              /\ timers' = IF game.currentIndex > 0
                           THEN Append(timers, "prevQuestion")
                           ELSE timers
       /\ (last'.op = "prevQuestion" /\ Head(trip.sched)) =>
              /\ game'.currentIndex = game.currentIndex - 1
              /\ game'.playlist = game.playlist
              /\ LoadProgressFrom(localStorage', activeBook.id) # Null
              /\ LoadProgressFrom(localStorage', activeBook.id)
                     .currentIndex.value = game'.currentIndex]_vars

\* C15: a callback is scheduled only by the end event that releases a
\* drag, one at most, and that release ends the drag, so a gesture
\* schedules one command at most; an end event that arrives while
\* isDragging is false schedules nothing and changes nothing; a start
\* event that arrives while the session is not active begins no drag.
C15_OneCommandPerGesture ==
    [][/\ timers' # timers /\ last'.op = "swipe" =>
              /\ trip'.event = "end"
              /\ isDragging /\ ~isDragging'
              /\ Len(timers') = Len(timers) + 1
       /\ trip'.event = "end" => ~isDragging' /\ Len(timers') <= Len(timers) + 1
       /\ trip'.event = "end ignored" =>
              /\ ~isDragging
              /\ UNCHANGED <<library, activeBook, selectedIndices, game,
                             localStorage, screen, resumeBtn, swipeVars,
                             timers>>
       /\ trip'.event = "start ignored" =>
              /\ ~game.active
              /\ UNCHANGED <<swipeVars, timers, game, localStorage>>]_vars

\* a second end event has arrived after the release that scheduled a
\* command, and the command of that release is still the only one waiting
C15_Witness ==
    /\ trip.event = "end ignored"
    /\ game.active
    /\ Len(timers) = 1

\* C16: an openBook whose fetch fails raises the notice and changes
\* nothing: activeBook, the selection, the game session, the library
\* metadata and every stored record are as before the call, and no screen
\* is opened.
C16_FailedOpenChangesNothing ==
    [][(last'.op = "openBook" /\ last'.alert = "csv") =>
           /\ activeBook' = activeBook
           /\ selectedIndices' = selectedIndices
           /\ game' = game
           /\ library' = library
           /\ localStorage' = localStorage
           /\ screen' = screen
           /\ resumeBtn' = resumeBtn]_vars

\* the fetch has failed on reopening a book that is open with a selection
\* and a stored record
C16_Witness ==
    /\ last.op = "openBook"
    /\ last.alert = "csv"
    /\ activeBook # Null
    /\ selectedIndices # <<>>
    /\ library[activeBook.id].count > 0
    /\ LoadProgress(activeBook.id) # Null

\* the indices of a stored record as a selection holds them: each once
SameIndices(selection, originalIndices) ==
    IF originalIndices.type = "array"
    THEN /\ Range(selection) = Range(originalIndices.items)
         /\ Cardinality(Range(selection)) = Len(selection)
    ELSE selection = <<>>

\* C17: exitGame stores the playlist, the cursor and the selection it finds
\* in memory and then shows the selection screen; after exitGame, and after
\* an openBook that opened the book, the resume button is shown exactly
\* when loadProgress(activeBook.id) returns a record, and the selection is
\* that record's originalIndices, or empty when there is no record.
C17_WelcomeFollowsStore ==
    [][/\ (last'.op = "exitGame" /\ activeBook # Null) =>
              LET progress == LoadProgressFrom(localStorage', activeBook.id)
              IN  /\ progress # Null
                  /\ progress.playlist.items = StringifyItems(game.playlist)
                  /\ progress.currentIndex.value = game.currentIndex
                  /\ progress.originalIndices.items = selectedIndices
                  /\ screen' = "welcome"
       /\ (/\ last'.op = "exitGame" \/ (last'.op = "openBook"
                                         /\ last'.alert = "none")
           /\ activeBook' # Null) =>
              LET progress == LoadProgressFrom(localStorage', activeBook'.id)
              IN  /\ resumeBtn' = "flex" <=> progress # Null
                  /\ resumeBtn' \in {"flex", "none"}
                  /\ IF progress # Null
                     THEN SameIndices(selectedIndices',
                                      Property(progress, "originalIndices"))
                     ELSE selectedIndices' = <<>>]_vars

\* exitGame has left the selection screen with the resume button and the
\* stored selection of a game that was being played
C17_Witness ==
    /\ last.op = "exitGame"
    /\ activeBook # Null
    /\ screen = "welcome"
    /\ resumeBtn = "flex"
    /\ selectedIndices # <<>>
    /\ game.playlist # <<>>

\* a line of the sheet that is not empty: it holds more than blanks
NonEmptyLine(row) == Len(row) > 1 \/ row[1].core # <<>>

\* the Word the claim gives for a line of the sheet
LineWord(row) ==
    [term |-> row[1].core,
     zhuyin |-> IF Len(row) >= 2 THEN row[2].core ELSE <<>>]

\* the words the claim gives for the sheet: one for each non-empty line
\* after the first non-empty line whose first field is not empty
ClaimedWords(rows) ==
    LET lines == SelectSeq(rows, NonEmptyLine)
        later == IF lines = <<>> THEN <<>> ELSE Tail(lines)
        yielding == SelectSeq(later, LAMBDA row : row[1].core # <<>>)
    IN  [i \in DOMAIN yielding |-> LineWord(yielding[i])]

\* the title the claim gives for the sheet
ClaimedTitle(rows) ==
    LET lines == SelectSeq(rows, NonEmptyLine) IN
    IF lines # <<>> /\ lines[1][1].core # <<>> /\ ~lines[1][1].header
    THEN JStr(lines[1][1].core)
    ELSE Undefined

\* C18: the first non-empty line of a CSV text yields no word (its first
\* field is the title unless it is a header word); every later non-empty
\* line whose first field is not empty yields one Word, in line order, its
\* term the first field and its zhuyin the second field, or empty when
\* there is no second field; a line whose first field is empty yields
\* nothing.
C18_ParseYieldsLaterLines ==
    trip.phase = "parsed" =>
        /\ activeBook.words = ClaimedWords(trip.rows)
        /\ trip.title = ClaimedTitle(trip.rows)
        /\ library[SessionBook].count = Len(ClaimedWords(trip.rows))

\* a sheet of a title line, a line with two padded fields and a line with
\* one field has been parsed into two words
C18_Witness ==
    /\ trip.phase = "parsed"
    /\ trip.title # Undefined
    /\ Len(trip.rows) >= 3
    /\ Len(activeBook.words) = 2
    /\ activeBook.words[1] = [term |-> <<"a", " ", "b">>, zhuyin |-> <<"z">>]
    /\ activeBook.words[2].zhuyin = <<>>

RECURSIVE Factorial(_)
Factorial(n) == IF n = 0 THEN 1 ELSE n * Factorial(n - 1)

\* C19: on an array of n distinct elements, shuffle steps i from n - 1
\* down and swaps element i with the element at a pick of 0..i; whatever
\* the picks, the result is a permutation of the array; other picks give
\* another result; and the picks give n! results between them, which is
\* every permutation, each from exactly one sequence of picks.
C19_ShuffleIsFisherYates ==
    trip.phase = "shuffled" =>
        LET n == Len(trip.array)
            results == {Shuffle(trip.array, r) : r \in RandomPicks(n)}
        IN  /\ IsPermutation(trip.result, trip.array)
            /\ \A c \in 1..n : trip.picks[c] \in 0..(c - 1)
            /\ \A r \in RandomPicks(n) :
                   Shuffle(trip.array, r) = trip.result => r = trip.picks
            /\ Cardinality(results) = Factorial(n)
            /\ \A p \in results : IsPermutation(p, trip.array)

\* an array of the longest length has been shuffled into another order with
\* its first element left in place
C19_Witness ==
    /\ trip.phase = "shuffled"
    /\ Len(trip.array) = MaxShuffle
    /\ trip.result # trip.array
    /\ trip.result[1] = trip.array[1]

\* C20: nextQuestion called with the cursor on the last index, and
\* prevQuestion called with the cursor on 0, change nothing and throw
\* nothing: cursor, playlist, session flag, selection and every stored
\* record, its timestamp too, are as before.
C20_EdgeCallsAreNoOps ==
    [][(\/ /\ last'.op = "nextQuestion"
           /\ game.currentIndex = Len(game.playlist) - 1
        \/ /\ last'.op = "prevQuestion"
           /\ game.currentIndex = 0) =>
           /\ game' = game
           /\ selectedIndices' = selectedIndices
           /\ localStorage' = localStorage
           /\ activeBook' = activeBook
           /\ screen' = screen
           /\ last'.alert = "none"]_vars

\* nextQuestion has run in an active session of one card, whose cursor it
\* can only have found on the last index
C20_Witness ==
    /\ last.op = "nextQuestion"
    /\ game.active
    /\ Len(game.playlist) = 1
    /\ game.currentIndex = 0
    /\ LoadProgress(activeBook.id) # Null


(***************************************************************************)
(* Properties of the playlist across books and loads.                      *)
(***************************************************************************)
\* the playlist of the record loadProgress returns for the book, or Null
StoredPlaylist(ls, bookId) ==
    LET progress == LoadProgressFrom(ls, bookId) IN
    IF progress = Null THEN Null ELSE progress.playlist

\* C21: a playlist is fixed at creation.  No step other than a new-game
\* start on the book changes the playlist stored for a book, and no step
\* other than a new-game start changes the playlist in memory, except that
\* a resume takes the playlist stored for the active book.
C21_PlaylistFixedAtCreation ==
    [][/\ \A b \in Books :
              (/\ StoredPlaylist(localStorage, b) # Null
               /\ ~(StartedNew' /\ activeBook.id = b)) =>
                  StoredPlaylist(localStorage', b) =
                      StoredPlaylist(localStorage, b)
       /\ ~StartedNew' =>
              \/ game'.playlist = game.playlist
              \/ /\ last'.op = "startGame(true)"
                 /\ JArr(game'.playlist) =
                        StoredPlaylist(localStorage, activeBook.id)]_vars

\* C22: every record the program has written holds as many playlist
\* entries as originalIndices, at creation and after every re-save by
\* nextQuestion, prevQuestion and exitGame.
C22_StoredLengthsAgree ==
    \A b \in Books :
        LET progress == LoadProgressFrom(localStorage, b) IN
        progress # Null =>
            Len(progress.playlist.items) = Len(progress.originalIndices.items)

\* C23: a press followed by a release with no move event in between
\* resets: the release schedules no navigation command and changes neither
\* the session nor the store, wherever earlier gestures started or ended.
C23_TapNeverNavigates ==
    [][(trip'.event = "end" /\ ~trip.moved) =>
           /\ timers' = timers
           /\ game' = game
           /\ localStorage' = localStorage]_vars

\* C24: a navigation command committed by a gesture has no effect once no
\* session is active: a deferred nextQuestion or prevQuestion that runs
\* after exitGame ended the session changes neither the cursor nor any
\* stored record.
C24_CallbackAfterExitIsNoOp ==
    [][(/\ last'.op \in {"nextQuestion", "prevQuestion"}
        /\ Head(trip.sched)
        /\ ~game.active) =>
           /\ game' = game
           /\ localStorage' = localStorage]_vars

\* C25: while a session is active the active book and the selection do
\* not change: an openBook whose load completes during a game replaces
\* neither state.activeBook nor state.selectedIndices and leaves the user
\* on the game screen.
C25_OpenBookLeavesGameAlone ==
    [][(last'.op = "openBook" /\ game.active /\ screen = "game") =>
           /\ activeBook' = activeBook
           /\ selectedIndices' = selectedIndices
           /\ screen' = "game"]_vars

\* the Words the sheet of a book can hold
BookWords(bookId) == {SheetWord(bookId, i) : i \in 0..(MaxWords - 1)}

\* C26: every record stored under a book id was written from a session
\* started on that book: its playlist holds only Words of the book and its
\* originalIndices is the selection the book's latest new game was built
\* from.
C26_RecordBelongsToItsBook ==
    \A b \in Books :
        LET progress == LoadProgressFrom(localStorage, b) IN
        progress # Null =>
            /\ \A i \in DOMAIN progress.playlist.items :
                   progress.playlist.items[i] \in BookWords(b)
            /\ progress.originalIndices = JArr(trip.built[b])

\* C27: every element of the playlist of an active session is a Word of
\* the active book, never a missing entry, also when the new game was
\* started from a selection that updateWelcomeUI restored from a record
\* whose originalIndices point past the end of the reloaded word list.
C27_PlaylistHoldsWords ==
    (game.active /\ activeBook # Null) =>
        \A i \in DOMAIN game.playlist :
            game.playlist[i] \in BookWords(activeBook.id)

(***************************************************************************)
(* Properties of the non-resumable variant.                                *)
(***************************************************************************)
\* C28: in src/app.js a nextQuestion that finds the cursor behind the end
\* of the history replays the word drawn already and draws nothing; one
\* that draws while more than one index is selected and the history is
\* not empty appends a Word of the active book whose term differs from the
\* term of the card shown before it.
C28_DrawAvoidsShownTerm ==
    [][last'.op = "nextQuestion" =>
           IF game.currentIndex < Len(game.history) - 1
           THEN /\ game'.history = game.history
                /\ game'.currentIndex = game.currentIndex + 1
           ELSE (Len(selectedIndices) > 1 /\ game.history # <<>>) =>
                    /\ Len(game'.history) = Len(game.history) + 1
                    /\ game'.history[Len(game'.history)]
                           \in Range(activeBook.words)
                    /\ game'.history[Len(game'.history)].term #
                           At(game.history, game.currentIndex).term]_vars
====
